---- MODULE Spec2Model ----
(***************************************************************************)
(* The VGA text mode driver of blog_os (src/blog_os/src/vga_buffer.rs):    *)
(* the Writer (cursor column, color, framebuffer), its wrap and scroll     *)
(* algorithm, the spin-locked process-wide WRITER and the print bridge.    *)
(*                                                                         *)
(* The framebuffer is a grid of BUFFER_HEIGHT rows by BUFFER_WIDTH columns *)
(* of cells, indexed from 0 as in the source.  The source sets 25 and 80;  *)
(* every definition below is written against the two names only, and the   *)
(* model is checked on a small grid.                                       *)
(***************************************************************************)
EXTENDS Integers, Sequences, FiniteSets

\* ------------------------------------------------------------------ bounds
\* Grid size the model is checked on (vga_buffer.rs:92 and :94 set 25 and 80).
BUFFER_HEIGHT == 3
BUFFER_WIDTH == 4
\* Number of contexts that call _print concurrently.
NumCtx == 2

\* ------------------------------------------------------- program constants
NEWLINE == 10
BLANK == 32
PRINTABLE_LO == 32
PRINTABLE_HI == 126
REPLACEMENT == 254
Black == 0
Yellow == 14
\* In the rendered pieces of a call: the place where an argument's
\* Display::fmt returns Err(fmt::Error).  Not a byte value.
FMT_ERROR == 256

Rows == 0 .. (BUFFER_HEIGHT - 1)
Cols == 0 .. (BUFFER_WIDTH - 1)

\* ColorCode::new: (background as u8) << 4 | (foreground as u8), in a u8.
\* The low nibble of the shifted background is zero and a Color is below 16,
\* so the bitwise or is a sum.
ColorCode_new(foreground, background) ==
    ((background * 16) % 256) + foreground

\* struct ScreenChar
ScreenChar(ascii_character, color_code) ==
    [ascii_character |-> ascii_character, color_code |-> color_code]

\* ------------------------------------------------------------------ state
VARIABLES
    column_position,   \* Writer.column_position
    color_code,        \* Writer.color_code
    buffer,            \* Writer.buffer.chars: [Rows -> [Cols -> ScreenChar]]
    panicked,          \* a bounds check of the framebuffer indexing failed
    scrolls,           \* history: number of new_line passes so far
    locked,            \* the spin::Mutex flag of WRITER
    pc,                \* per context: position inside _print
    pending,           \* per context: rendered bytes not yet written
    acquired,          \* history, per context: the Writer when it took the lock
    text,              \* per context: the args of the call it is in
    serial,            \* history: the Writer had the calls run one after another
    pre,               \* history: the Writer before the last completed call
    last,              \* history: the last completed call and its argument
    nbytes,            \* history: bytes handed to the Writer so far
    lines,             \* history: the lines printed with println so far
    once,              \* the state of the lazy static's one-time initialisation
    constructed,       \* history: number of Writers constructed so far
    handler,           \* per context: 0, or the panic handler's next println
    info               \* per context: the message of the panic being handled

writer_vars == <<column_position, color_code, buffer, panicked, scrolls>>
vars == <<column_position, color_code, buffer, panicked, scrolls,
          locked, pc, pending, acquired, text, serial, pre, last, nbytes, lines,
          once, constructed, handler, info>>
once_vars == <<once, constructed>>
panic_vars == <<handler, info>>

\* The Writer as one value, as the methods see it through &mut self.
Self ==
    [column_position |-> column_position, color_code |-> color_code,
     buffer |-> buffer, panicked |-> panicked, scrolls |-> scrolls]

Store(w) ==
    /\ column_position' = w.column_position
    /\ color_code' = w.color_code
    /\ buffer' = w.buffer
    /\ panicked' = w.panicked
    /\ scrolls' = w.scrolls

\* ------------------------------------------------------------------ Writer
\* Mutant of clear_row: the loop stops one column short.
clear_row_short(self, row) ==
    LET blank == ScreenChar(BLANK, self.color_code)
    IN  [self EXCEPT !.buffer[row] =
            [col \in Cols |-> IF col < BUFFER_WIDTH - 1 THEN blank
                              ELSE self.buffer[row][col]]]

\* Writer::clear_row: every cell of the row becomes the blank of the
\* current color.
clear_row(self, row) ==
    LET blank == ScreenChar(BLANK, self.color_code)
    IN  [self EXCEPT !.buffer[row] = [col \in Cols |-> blank]]

\* Mutant of CopyRows: the rows are visited in descending order, so the
\* in-place copy smears the bottom row over the whole grid.
RECURSIVE CopyRowsDown(_, _)
CopyRowsDown(chars, row) ==
    IF row < 1 THEN chars
    ELSE CopyRowsDown([chars EXCEPT ![row - 1] =
                          [col \in Cols |-> chars[row][col]]], row - 1)
CopyRows_descending(chars, row) == CopyRowsDown(chars, BUFFER_HEIGHT - 1)

\* The copy loop of Writer::new_line, from `row` on: rows are copied in
\* place, in ascending order, each into the row above it.
RECURSIVE CopyRows(_, _)
CopyRows(chars, row) ==
    IF row >= BUFFER_HEIGHT THEN chars
    ELSE CopyRows([chars EXCEPT ![row - 1] =
                      [col \in Cols |-> chars[row][col]]], row + 1)

\* Mutant of new_line: the bottom row is cleared and the cursor reset, but
\* the rows are not moved up.
new_line_no_copy(self) ==
    LET cleared == clear_row(self, BUFFER_HEIGHT - 1)
    IN  [cleared EXCEPT !.column_position = 0, !.scrolls = self.scrolls + 1]

\* Writer::new_line
new_line(self) ==
    LET copied == [self EXCEPT !.buffer = CopyRows(self.buffer, 1)]
        cleared == clear_row(copied, BUFFER_HEIGHT - 1)
    IN  [cleared EXCEPT !.column_position = 0, !.scrolls = self.scrolls + 1]

\* Mutant of write_byte: the wrap test is > instead of >=.
write_byte_wrap_gt(self, byte) ==
    IF self.panicked THEN self
    ELSE IF byte = NEWLINE THEN new_line(self)
    ELSE LET wrapped == IF self.column_position > BUFFER_WIDTH
                        THEN new_line(self) ELSE self
             row == BUFFER_HEIGHT - 1
             col == wrapped.column_position
         IN  IF row \notin Rows \/ col \notin Cols
             THEN [wrapped EXCEPT !.panicked = TRUE]
             ELSE [wrapped EXCEPT
                      !.buffer[row][col] = ScreenChar(byte, wrapped.color_code),
                      !.column_position = col + 1]

\* Mutant of write_byte: the cursor is advanced before the cell is stored.
write_byte_advance_first(self, byte) ==
    IF self.panicked THEN self
    ELSE IF byte = NEWLINE THEN new_line(self)
    ELSE LET wrapped == IF self.column_position >= BUFFER_WIDTH
                        THEN new_line(self) ELSE self
             row == BUFFER_HEIGHT - 1
             col == wrapped.column_position + 1
         IN  IF row \notin Rows \/ col \notin Cols
             THEN [wrapped EXCEPT !.panicked = TRUE]
             ELSE [wrapped EXCEPT
                      !.buffer[row][col] = ScreenChar(byte, wrapped.color_code),
                      !.column_position = col]

\* Mutant of write_byte: the wrap is applied as soon as the row is full,
\* after the store, instead of before the next one.
write_byte_eager_wrap(self, byte) ==
    IF self.panicked THEN self
    ELSE IF byte = NEWLINE THEN new_line(self)
    ELSE LET row == BUFFER_HEIGHT - 1
             col == self.column_position
         IN  IF row \notin Rows \/ col \notin Cols
             THEN [self EXCEPT !.panicked = TRUE]
             ELSE LET stored == [self EXCEPT
                          !.buffer[row][col] = ScreenChar(byte, self.color_code),
                          !.column_position = col + 1]
                  IN  IF stored.column_position >= BUFFER_WIDTH
                      THEN new_line(stored) ELSE stored

\* Mutant of write_byte: the byte goes through the printable filter of
\* write_string before it is stored.
write_byte_filtered(self, byte) ==
    IF self.panicked THEN self
    ELSE IF byte = NEWLINE THEN new_line(self)
    ELSE LET wrapped == IF self.column_position >= BUFFER_WIDTH
                        THEN new_line(self) ELSE self
             row == BUFFER_HEIGHT - 1
             col == wrapped.column_position
             shown == IF byte >= PRINTABLE_LO /\ byte <= PRINTABLE_HI
                      THEN byte ELSE REPLACEMENT
         IN  IF row \notin Rows \/ col \notin Cols
             THEN [wrapped EXCEPT !.panicked = TRUE]
             ELSE [wrapped EXCEPT
                      !.buffer[row][col] = ScreenChar(shown, wrapped.color_code),
                      !.column_position = col + 1]

\* Writer::write_byte.  Indexing chars[row][col] is bounds checked: an index
\* outside the grid panics instead of storing.
write_byte(self, byte) ==
    IF self.panicked THEN self
    ELSE IF byte = NEWLINE THEN new_line(self)
    ELSE LET wrapped == IF self.column_position >= BUFFER_WIDTH
                        THEN new_line(self) ELSE self
             row == BUFFER_HEIGHT - 1
             col == wrapped.column_position
         IN  IF row \notin Rows \/ col \notin Cols
             THEN [wrapped EXCEPT !.panicked = TRUE]
             ELSE [wrapped EXCEPT
                      !.buffer[row][col] = ScreenChar(byte, wrapped.color_code),
                      !.column_position = col + 1]

\* Mutant of write_string_byte: the printable range excludes its upper end
\* (0x20..0x7e instead of 0x20..=0x7e).
write_string_byte_exclusive(self, byte) ==
    IF (byte >= PRINTABLE_LO /\ byte < PRINTABLE_HI) \/ byte = NEWLINE
    THEN write_byte(self, byte)
    ELSE write_byte(self, REPLACEMENT)

\* One iteration of the loop of Writer::write_string: the match on the byte.
write_string_byte(self, byte) ==
    IF (byte >= PRINTABLE_LO /\ byte <= PRINTABLE_HI) \/ byte = NEWLINE
    THEN write_byte(self, byte)
    ELSE write_byte(self, REPLACEMENT)

\* Writer::write_string: the bytes of s in order.
RECURSIVE write_string(_, _)
write_string(self, s) ==
    IF s = <<>> THEN self
    ELSE write_string(write_string_byte(self, Head(s)), Tail(s))

\* fmt::Write::write_fmt over Writer::write_str: every piece of the rendered
\* arguments goes to write_string in order, as it is rendered; write_str
\* returns Ok(()), so the only error is the one of an argument whose
\* formatter fails, and it ends the rendering there.
RECURSIVE write_fmt(_, _)
write_fmt(self, args) ==
    IF args = <<>> THEN [writer |-> self, result |-> "Ok"]
    ELSE IF Head(args) = <<FMT_ERROR>> THEN [writer |-> self, result |-> "Err"]
    ELSE write_fmt(write_string(self, Head(args)), Tail(args))

\* print!("{}", s): the pieces handed to _print.
print_args(s) == <<s>>

\* Mutant of println_args: the trailing newline is missing.
println_args_no_newline(s) == <<s>>

\* println!("{}", s): print!("{}\n", format_args!("{}", s)).
println_args(s) == <<s, <<NEWLINE>>>>

\* println!(): print!("\n").
println_empty_args == << <<NEWLINE>> >>

\* print!("{}{}", s, x) with an x whose Display::fmt returns an error.
failing_args(s) == <<s, <<FMT_ERROR>>>>

\* _print: WRITER.lock().write_fmt(args).unwrap(), the lock taken and
\* released around the whole write_fmt; unwrap panics on Err.
_print(self, args) ==
    LET r == write_fmt(self, args)
    IN  IF r.result = "Ok" THEN r.writer
        ELSE [r.writer EXCEPT !.panicked = TRUE]

\* ------------------------------------------------------------------ inputs
Ctx == 1 .. NumCtx

\* The framebuffer is hardware memory the program never initialises: either
\* a screen the firmware cleared, or one that still shows earlier output.
InitBuffers ==
    { [row \in Rows |-> [col \in Cols |-> ScreenChar(BLANK, 7)]],
      [row \in Rows |-> [col \in Cols |-> ScreenChar(48 + row, 7)]] }

Init ==
    /\ column_position = 0
    /\ color_code = ColorCode_new(Yellow, Black)
    /\ buffer \in InitBuffers
    /\ panicked = FALSE
    /\ scrolls = 0
    /\ locked = FALSE
    /\ pc = [c \in Ctx |-> "idle"]
    /\ pending = [c \in Ctx |-> <<>>]
    /\ acquired = [c \in Ctx |-> <<>>]
    /\ text = [c \in Ctx |-> <<>>]
    /\ serial = Self
    /\ pre = <<>>
    /\ last = [op |-> "none", arg |-> <<>>]
    /\ nbytes = 0
    /\ lines = <<>>
    /\ once = "COMPLETE"
    /\ constructed = 1
    /\ handler = [c \in Ctx |-> 0]
    /\ info = [c \in Ctx |-> <<>>]

\* ---------------------------------------------------- the Writer's methods
\* Specification Spec: one context uses the Writer through its two public
\* methods; each call runs to completion.

\* All sequences over S of length at most n.
SeqsUpTo(S, n) == UNION { [1 .. k -> S] : k \in 0 .. n }

\* Bytes handed to write_byte directly: newline, a printable letter, and a
\* byte write_string would have replaced.
ByteInputs == {NEWLINE, 65, 255}

\* Bytes of the strings handed to write_string: two printable letters,
\* newline, and DEL (a one byte character outside the printable range).
StrBytes == {65, 66, NEWLINE, 127}
\* Enough bytes to fill a row and wrap.
MaxBytes == BUFFER_WIDTH + 1

\* A completed call: the Writer is replaced by the result w.
Call(op, arg, n, w) ==
    /\ ~locked
    /\ ~panicked
    /\ pre' = Self
    /\ last' = [op |-> op, arg |-> arg]
    /\ nbytes' = nbytes + n
    /\ Store(w)
    /\ serial' = w
    /\ UNCHANGED <<locked, pc, pending, acquired, text, once_vars, panic_vars>>

\* WRITER.lock().write_byte(byte)
WriteByte(byte) ==
    /\ nbytes < MaxBytes
    /\ Call("write_byte", <<byte>>, 1, write_byte(Self, byte))
    /\ UNCHANGED lines

\* WRITER.lock().write_string(s)
WriteString(s) ==
    /\ Call("write_string", s, Len(s), write_string(Self, s))
    /\ UNCHANGED lines

Next ==
    \/ \E byte \in ByteInputs : WriteByte(byte)
    \/ \E s \in SeqsUpTo(StrBytes, MaxBytes - nbytes) : WriteString(s)

Spec == Init /\ [][Next]_vars

\* ------------------------------------------------ the bytes of a string
\* Specification SpecBytes: one write_string call on the fresh Writer, its
\* string drawn from every byte value a &str can hold.  A &str is valid
\* UTF-8: its bytes are those of a sequence of encoded characters.
Utf8Chars ==
    { <<b>> : b \in 0 .. 127 }
    \cup { <<194, c>> : c \in 128 .. 191 }
    \cup { <<l, 128>> : l \in 194 .. 223 }
    \cup { <<224, 160, 128>>, <<237, 128, 128>>, <<226, 150, 160>> }
    \cup { <<l, 128, 128>> : l \in (225 .. 236) \cup {238, 239} }
    \cup { <<240, 144, 128, 128>>, <<244, 128, 128, 128>> }
    \cup { <<l, 128, 128, 128>> : l \in 241 .. 243 }

\* One character of any encoding, after 0..BUFFER_WIDTH letters and before
\* at most one more letter.
WideStrInputs ==
    { [i \in 1 .. n |-> 65] \o ch \o tail :
         n \in 0 .. BUFFER_WIDTH, ch \in Utf8Chars, tail \in {<<>>, <<66>>} }

NextBytes ==
    \E s \in WideStrInputs : nbytes = 0 /\ WriteString(s)

SpecBytes == Init /\ [][NextBytes]_vars

\* ------------------------------------------------------- println, line by line
\* Specification SpecLines: the program prints whole lines with println!,
\* as every call site of the repository does (main.rs, the tests).
LineInputs ==
    { <<65>>, <<66, 65>>,
      [i \in 1 .. (BUFFER_WIDTH - 1) |-> 65],
      [i \in 1 .. BUFFER_WIDTH |-> 66] }
\* Enough lines to scroll the first ones off the screen.
MaxLines == BUFFER_HEIGHT + 2

\* println!("{}", s)
PrintlnMacro(s) ==
    /\ Len(lines) < MaxLines
    /\ Call("println", s, Len(s) + 1, _print(Self, println_args(s)))
    /\ lines' = Append(lines, s)

\* println!()
PrintlnEmpty ==
    /\ Len(lines) < MaxLines
    /\ Call("println", <<>>, 1, _print(Self, println_empty_args))
    /\ lines' = Append(lines, <<>>)

NextLines ==
    \/ \E s \in LineInputs : PrintlnMacro(s)
    \/ PrintlnEmpty

SpecLines == Init /\ [][NextLines]_vars

\* ------------------------------------------------- concurrent call sites
\* Specification SpecConc: several contexts call _print.  A call takes the
\* WRITER lock, writes its rendered pieces byte by byte and releases the
\* lock when the guard is dropped at the end of the statement.

\* The bytes of all pieces of args, in order.
RECURSIVE Flat(_)
Flat(args) == IF args = <<>> THEN <<>> ELSE Head(args) \o Flat(Tail(args))

ConcArgs ==
    { print_args(<<65>>), print_args(<<66, 66>>),
      println_args(<<65, 66>>), println_empty_args }
MaxConcBytes == BUFFER_WIDTH + 2

\* A context enters _print(args).
Enter(c, args) ==
    /\ pc[c] = "idle"
    /\ ~panicked
    /\ nbytes + Len(Flat(args)) <= MaxConcBytes
    /\ nbytes' = nbytes + Len(Flat(args))
    /\ pc' = [pc EXCEPT ![c] = "lock"]
    /\ text' = [text EXCEPT ![c] = args]
    /\ UNCHANGED <<writer_vars, locked, pending, acquired, serial, pre, last, lines,
                   once_vars, panic_vars>>

\* Mutant of Lock: the flag is set without being tested.
Lock_untested(c) ==
    /\ pc[c] = "lock"
    /\ once = "COMPLETE"
    /\ locked' = TRUE
    /\ pc' = [pc EXCEPT ![c] = "write"]
    /\ pending' = [pending EXCEPT ![c] = Flat(text[c])]
    /\ acquired' = [acquired EXCEPT ![c] = Self]
    /\ serial' = _print(serial, text[c])
    /\ UNCHANGED <<writer_vars, text, pre, last, nbytes, lines, once_vars, panic_vars>>

\* WRITER.lock(): the lazy static is initialised, and the spin lock's
\* compare-and-swap succeeds only on a free lock; a context that finds it
\* taken keeps spinning at "lock".
Lock(c) ==
    /\ pc[c] = "lock"
    /\ once = "COMPLETE"
    /\ ~locked
    /\ locked' = TRUE
    /\ pc' = [pc EXCEPT ![c] = "write"]
    /\ pending' = [pending EXCEPT ![c] = Flat(text[c])]
    /\ acquired' = [acquired EXCEPT ![c] = Self]
    /\ serial' = _print(serial, text[c])
    /\ UNCHANGED <<writer_vars, text, pre, last, nbytes, lines, once_vars, panic_vars>>

\* One iteration of write_string's loop inside write_fmt.
WriteStep(c) ==
    /\ pc[c] = "write"
    /\ pending[c] # <<>>
    /\ Head(pending[c]) # FMT_ERROR
    /\ Store(write_string_byte(Self, Head(pending[c])))
    /\ pending' = [pending EXCEPT ![c] = Tail(pending[c])]
    /\ UNCHANGED <<locked, pc, acquired, text, serial, pre, last, nbytes, lines,
                   once_vars, panic_vars>>

\* Mutant of Unlock: the call returns without releasing the lock (the guard
\* is leaked instead of dropped).
Unlock_leaked(c) ==
    /\ pc[c] = "write"
    /\ pending[c] = <<>>
    /\ locked' = locked
    /\ pc' = [pc EXCEPT ![c] = IF handler[c] = 0 THEN "idle" ELSE "panic"]
    /\ acquired' = [acquired EXCEPT ![c] = <<>>]
    /\ text' = [text EXCEPT ![c] = <<>>]
    /\ UNCHANGED <<writer_vars, pending, serial, pre, last, nbytes, lines,
                   once_vars, panic_vars>>

\* write_fmt returned Ok, unwrap passes, the guard is dropped; the call
\* returns to its call site, which is the panic handler if the context is
\* handling a panic.
Unlock(c) ==
    /\ pc[c] = "write"
    /\ pending[c] = <<>>
    /\ locked' = FALSE
    /\ pc' = [pc EXCEPT ![c] = IF handler[c] = 0 THEN "idle" ELSE "panic"]
    /\ acquired' = [acquired EXCEPT ![c] = <<>>]
    /\ text' = [text EXCEPT ![c] = <<>>]
    /\ UNCHANGED <<writer_vars, pending, serial, pre, last, nbytes, lines,
                   once_vars, panic_vars>>

NextConc ==
    \/ \E c \in Ctx, args \in ConcArgs : Enter(c, args)
    \/ \E c \in Ctx : Lock(c)
    \/ \E c \in Ctx : WriteStep(c)
    \/ \E c \in Ctx : Unlock(c)

SpecConc == Init /\ [][NextConc]_vars

\* ------------------------------------------------------------------ claims
\* Vocabulary of the claims.
LastRow == BUFFER_HEIGHT - 1
IsPrintable(b) == b \in 32 .. 126
AllPrintable(s) == \A i \in 1 .. Len(s) : IsPrintable(s[i])
BlankCell == [ascii_character |-> 32, color_code |-> color_code]
\* The last call handed the Writer the single non-newline byte b, through
\* write_byte or as a one byte printable string.
LastWroteOne(b) ==
    /\ last.arg = <<b>>
    /\ b # 10
    /\ \/ last.op = "write_byte"
       \/ last.op = "write_string" /\ IsPrintable(b)

C2_Scroll ==
    (last.op = "write_byte" /\ last.arg = <<10>>) =>
        /\ \A row \in 1 .. LastRow : \A col \in Cols :
              buffer[row - 1][col] = pre.buffer[row][col]
        /\ \A col \in Cols : buffer[LastRow][col] = BlankCell
        /\ column_position = 0
        /\ color_code = pre.color_code
        /\ scrolls = pre.scrolls + 1

C2_Witness ==
    /\ last.op = "write_byte" /\ last.arg = <<10>>
    /\ pre.column_position > 0
    /\ \A r1, r2 \in Rows : r1 # r2 => pre.buffer[r1] # pre.buffer[r2]
    /\ \E col \in Cols : pre.buffer[LastRow][col] # BlankCell

\* C4: from column 0, write_string of a printable string without newline
\* and of length at most BUFFER_WIDTH leaves exactly its characters, in
\* order, in the first cells of the bottom row, and column_position at its
\* length.
C4_RoundTrip ==
    (/\ last.op = "write_string"
     /\ pre.column_position = 0
     /\ AllPrintable(last.arg)
     /\ Len(last.arg) <= BUFFER_WIDTH) =>
        /\ \A i \in 1 .. Len(last.arg) :
              buffer[LastRow][i - 1].ascii_character = last.arg[i]
        /\ column_position = Len(last.arg)

C4_Witness ==
    /\ last.op = "write_string"
    /\ pre.column_position = 0
    /\ AllPrintable(last.arg)
    /\ Len(last.arg) = BUFFER_WIDTH
    /\ last.arg[1] # last.arg[2]
    /\ column_position = BUFFER_WIDTH
\* C7: from column 0, BUFFER_WIDTH printable characters and then one more:
\* the scroll comes before the extra character is stored, which lands in the
\* bottom row at column 0 (column_position 1), and the first BUFFER_WIDTH
\* characters are intact one row up.  Stated for the characters written in
\* one write_string call, and for the extra character written by a call of
\* its own on a full row.
C7_WrapBeforePlace ==
    /\ (/\ last.op = "write_string"
        /\ pre.column_position = 0
        /\ AllPrintable(last.arg)
        /\ Len(last.arg) = BUFFER_WIDTH + 1) =>
           /\ scrolls = pre.scrolls + 1
           /\ column_position = 1
           /\ buffer[LastRow][0].ascii_character = last.arg[BUFFER_WIDTH + 1]
           /\ \A i \in 1 .. BUFFER_WIDTH :
                 buffer[LastRow - 1][i - 1].ascii_character = last.arg[i]
           /\ \A col \in 1 .. (BUFFER_WIDTH - 1) : buffer[LastRow][col] = BlankCell
    /\ \A b \in ByteInputs \cup StrBytes :
          (LastWroteOne(b) /\ pre.column_position = BUFFER_WIDTH) =>
             /\ scrolls = pre.scrolls + 1
             /\ column_position = 1
             /\ buffer[LastRow][0].ascii_character = b
             /\ buffer[LastRow - 1] = pre.buffer[LastRow]

C7_Witness ==
    /\ last.op = "write_string"
    /\ pre.column_position = 0
    /\ AllPrintable(last.arg)
    /\ Len(last.arg) = BUFFER_WIDTH + 1
    /\ last.arg[1] # last.arg[BUFFER_WIDTH + 1]
    /\ column_position = 1

\* The last call wrote, from column 0, a printable string of n bytes.
WroteFromColumn0(n) ==
    /\ last.op = "write_string"
    /\ pre.column_position = 0
    /\ AllPrintable(last.arg)
    /\ Len(last.arg) = n

Rendered(b) == IF b = 10 \/ b \in 32 .. 126 THEN b ELSE 254

\* write_byte applied to the bytes bs in order.
RECURSIVE WriteBytes(_, _)
WriteBytes(w, bs) ==
    IF bs = <<>> THEN w ELSE WriteBytes(write_byte(w, Head(bs)), Tail(bs))

\* Where the i-th of n non-newline bytes written from column 0 is shown:
\* the row (negative once scrolled off the screen) and the column.
RowOfByte(i, n) ==
    LastRow - (((n - 1) \div BUFFER_WIDTH) - ((i - 1) \div BUFFER_WIDTH))
ColOfByte(i) == (i - 1) % BUFFER_WIDTH

\* C3: write_string hands every newline and every byte of [0x20, 0x7E] to
\* write_byte unchanged and every other byte as 0xFE, never as the raw byte:
\* the Writer after write_string(s) is the Writer after write_byte of the
\* rendered bytes, and every character the call stored is in [0x20, 0x7E]
\* or is 0xFE.
C3_Replacement ==
    last.op = "write_string" =>
        LET s == last.arg
            n == Len(s)
        IN  /\ Self = WriteBytes(pre, [i \in 1 .. n |-> Rendered(s[i])])
            /\ (pre.column_position = 0 /\ \A i \in 1 .. n : s[i] # 10) =>
                  \A i \in 1 .. n :
                     RowOfByte(i, n) >= 0 =>
                        LET ch == buffer[RowOfByte(i, n)][ColOfByte(i)].ascii_character
                        IN  /\ ch \in (32 .. 126) \cup {254}
                            /\ IsPrintable(s[i]) => ch = s[i]
                            /\ ~IsPrintable(s[i]) => (ch = 254 /\ ch # s[i])

C3_Witness ==
    /\ last.op = "write_string"
    /\ Len(last.arg) > BUFFER_WIDTH
    /\ \E i \in 1 .. Len(last.arg) : last.arg[i] > 127
    /\ \E col \in Cols : buffer[LastRow - 1][col].ascii_character = 254
    /\ \E col \in Cols : buffer[LastRow - 1][col].ascii_character = 65
    /\ buffer[LastRow][0].ascii_character = 66
\* Row `row` shows the line `line` from column 0 on.
RowShows(row, line) ==
    \A i \in 1 .. Len(line) :
        buffer[row][i - 1] = [ascii_character |-> line[i], color_code |-> color_code]
\* The columns of `row` that `line` does not use are blank.
RestBlank(row, line) ==
    \A col \in Len(line) .. (BUFFER_WIDTH - 1) : buffer[row][col].ascii_character = 32

ShowsLastLines ==
    LET n == Len(lines)
    IN  /\ \A row \in 0 .. (LastRow - 1) :
              RowShows(row, lines[n - (LastRow - 1) + row])
        /\ \A col \in Cols : buffer[LastRow][col] = BlankCell
        /\ column_position = 0
        /\ scrolls = n
        /\ ~panicked

\* C6 as stated: after N >= height-1 lines the screen shows exactly the
\* last height-1 lines, the unused columns of every one of them blank.
C6_LastLinesAllBlank ==
    Len(lines) >= BUFFER_HEIGHT - 1 =>
        /\ ShowsLastLines
        /\ \A row \in 0 .. (LastRow - 1) :
              RestBlank(row, lines[Len(lines) - (LastRow - 1) + row])

\* C6 as amended: no println fails or leaves the grid, and another line can
\* always be printed; after N >= height-1 lines the screen shows exactly the
\* last height-1 lines in order; the
\* unused columns are blank for every line but the first one ever written
\* (still on screen only when N = height-1), which was written on a row no
\* scroll had cleared.
C6_LastLines ==
    /\ ~panicked
    /\ Len(lines) < MaxLines => ENABLED NextLines
    /\ Len(lines) >= BUFFER_HEIGHT - 1 =>
          /\ ShowsLastLines
          /\ \A row \in 0 .. (LastRow - 1) :
                LET k == Len(lines) - (LastRow - 1) + row
                IN  k >= 2 => RestBlank(row, lines[k])

C6_Witness ==
    /\ Len(lines) = MaxLines
    /\ \A row \in 0 .. (LastRow - 1) : \E col \in Cols : buffer[row][col] # BlankCell
    /\ Len(lines[1]) = BUFFER_WIDTH
    /\ \E row \in 0 .. (LastRow - 1) : buffer[row][BUFFER_WIDTH - 1] = BlankCell
\* The contexts inside the critical section of _print.
Holders == { c \in Ctx : pc[c] = "write" }

\* C9: at most one context holds the WRITER lock at any time, and every
\* change of column_position, color_code or a framebuffer cell is a step of
\* the one context that holds it.
C9_MutualExclusion ==
    /\ [](Cardinality(Holders) <= 1 /\ (locked <=> Holders # {}))
    /\ [][writer_vars' # writer_vars =>
             \E c \in Ctx :
                /\ locked
                /\ Holders = {c}
                /\ pc'[c] = "write"
                /\ pending'[c] = Tail(pending[c])
                /\ \A d \in Ctx \ {c} : pending'[d] = pending[d] /\ pc'[d] = pc[d]]_vars

C9_Witness ==
    \E c, d \in Ctx :
        /\ c # d
        /\ pc[c] = "write"
        /\ pending[c] # <<>>
        /\ pending[c] # Flat(text[c])
        /\ pc[d] = "lock"
        /\ locked

\* The bytes of its call that context c has written so far.
Written(c) ==
    SubSeq(Flat(text[c]), 1, Len(Flat(text[c])) - Len(pending[c]))

\* C10: every _print call, a println's trailing newline included, writes
\* all its bytes under one lock acquisition: while a context holds the lock
\* the Writer is the one it found with exactly its own bytes written so far,
\* and whenever the lock is free the screen is the one the calls give when
\* run whole, one after another, in the order they took the lock.
C10_Atomic ==
    /\ ~locked => Self = serial
    /\ \A c \in Ctx :
          pc[c] = "write" =>
             /\ Self = write_string(acquired[c], Written(c))
             /\ pending[c] = <<>> =>
                   (Self = _print(acquired[c], text[c]) /\ Self = serial)

C10_Witness ==
    \E c, d \in Ctx :
        /\ c # d
        /\ pc[c] = "write"
        /\ pending[c] = <<>>
        /\ text[c] = println_args(<<65, 66>>)
        /\ acquired[c].column_position > 0
        /\ pc[d] = "lock"
        /\ text[d] # <<>>

\* C20: once the first scroll has happened, every cell of the bottom row at
\* a column at or right of column_position is a space in the Writer's
\* color: the bottom row holds only what was written since the last scroll.
C20_BottomRowTailBlank ==
    scrolls >= 1 =>
        \A col \in Cols :
            col >= column_position => buffer[LastRow][col] = BlankCell

\* After a scroll of a stale screen, some but not all cells of the bottom
\* row have been written again.
C20_Witness ==
    /\ scrolls >= 1
    /\ column_position \in 1 .. (BUFFER_WIDTH - 1)
    /\ pre.scrolls >= 1
    /\ last.op = "write_byte"
    /\ \A col \in Cols : buffer[0][col].ascii_character # BLANK

\* ---------------------------------------------------------------------
\* Specification SpecAnyByte: a direct write_byte call with any value a u8
\* can hold, at every column a short write_string can leave the cursor at.
AnyByte == 0 .. 255
PrefixBytes == {65, NEWLINE}

NextAnyByte ==
    \/ \E s \in SeqsUpTo(PrefixBytes, BUFFER_WIDTH) :
          last.op = "none" /\ WriteString(s)
    \/ \E byte \in AnyByte :
          last.op # "write_byte" /\ WriteByte(byte)

SpecAnyByte == Init /\ [][NextAnyByte]_vars

\* C16: write_byte of a byte other than newline, at a column below the
\* width, takes every value 0..255 as it is: exactly the cell at (last row,
\* old column_position) becomes {that byte, the Writer's color}, the column
\* advances by one, every other cell and the color keep their values, and
\* no scroll happens.
C16_WriteByteFrame ==
    \A b \in AnyByte :
        (/\ last.op = "write_byte"
         /\ last.arg = <<b>>
         /\ b # 10
         /\ pre.column_position < BUFFER_WIDTH) =>
            /\ ~panicked
            /\ column_position = pre.column_position + 1
            /\ color_code = pre.color_code
            /\ scrolls = pre.scrolls
            /\ \A row \in Rows : \A col \in Cols :
                  buffer[row][col] =
                     IF row = BUFFER_HEIGHT - 1 /\ col = pre.column_position
                     THEN [ascii_character |-> b, color_code |-> pre.color_code]
                     ELSE pre.buffer[row][col]

\* The byte 0, which write_string would replace, stored raw in the middle
\* of the bottom row of a stale screen.
C16_Witness ==
    /\ last.op = "write_byte"
    /\ last.arg = <<0>>
    /\ pre.column_position \in 1 .. (BUFFER_WIDTH - 1)
    /\ buffer[LastRow][pre.column_position].ascii_character = 0
    /\ buffer[0][0].ascii_character # BLANK
    /\ column_position = pre.column_position + 1

\* ---------------------------------------------------------------------
\* Specification SpecWrap: one write_string of up to a whole screen of
\* bytes without a newline, from column 0 of the initial screen or of a
\* screen that has scrolled once.  Every byte of an input differs from its
\* neighbours, so a lost, repeated or misplaced byte shows; one position
\* may hold a byte outside the printable range.
WrapInput(len, bad) ==
    [i \in 1 .. len |-> IF i = bad THEN 127 ELSE PRINTABLE_LO + (i % 64)]
WrapInputs ==
    {WrapInput(len, bad) : len \in 0 .. (BUFFER_HEIGHT * BUFFER_WIDTH),
                           bad \in 0 .. (BUFFER_HEIGHT * BUFFER_WIDTH)}

NextWrap ==
    \/ last.op = "none" /\ WriteByte(NEWLINE)
    \/ \E s \in WrapInputs : last.op # "write_string" /\ WriteString(s)

SpecWrap == Init /\ [][NextWrap]_vars

\* The number of scrolls the claim gives for len bytes from column 0.
WrapScrolls(len) ==
    IF len = 0 THEN 0 ELSE ((len + BUFFER_WIDTH - 1) \div BUFFER_WIDTH) - 1

Colors == 0 .. 15
UNINIT == -1

InitLazy ==
    /\ column_position = UNINIT
    /\ color_code = UNINIT
    /\ buffer \in InitBuffers
    /\ panicked = FALSE
    /\ scrolls = 0
    /\ locked = FALSE
    /\ pc = [c \in Ctx |-> "idle"]
    /\ pending = [c \in Ctx |-> <<>>]
    /\ acquired = [c \in Ctx |-> <<>>]
    /\ text = [c \in Ctx |-> <<>>]
    /\ serial = Self
    /\ pre = <<>>
    /\ last = [op |-> "none", arg |-> <<>>]
    /\ nbytes = 0
    /\ lines = <<>>
    /\ once = "INCOMPLETE"
    /\ constructed = 0
    /\ handler = [c \in Ctx |-> 0]
    /\ info = [c \in Ctx |-> <<>>]

\* Writer { column_position: 0, color_code: ColorCode::new(foreground,
\* background), buffer: the VGA memory }: the struct is built around the
\* framebuffer, which is only referenced.
Writer_new(foreground, background) ==
    /\ column_position' = 0
    /\ color_code' = ColorCode_new(foreground, background)
    /\ UNCHANGED <<buffer, panicked, scrolls>>
    /\ constructed' = constructed + 1
    /\ pre' = Self
    /\ last' = [op |-> "ColorCode_new", arg |-> <<foreground, background>>]
    /\ serial' = [Self EXCEPT !.column_position = 0,
                              !.color_code = ColorCode_new(foreground, background)]

\* Specification SpecColor: a Writer built with any pair of colors of the
\* Color enum, then used for a few bytes.
MaxColorBytes == 2

NewWriter(foreground, background) ==
    /\ once = "INCOMPLETE"
    /\ Writer_new(foreground, background)
    /\ once' = "COMPLETE"
    /\ UNCHANGED <<locked, pc, pending, acquired, text, nbytes, lines, panic_vars>>

NextColor ==
    \/ \E foreground, background \in Colors : NewWriter(foreground, background)
    \/ \E byte \in PrefixBytes :
          once = "COMPLETE" /\ nbytes < MaxColorBytes /\ WriteByte(byte)

SpecColor == InitLazy /\ [][NextColor]_vars

\* C15: for every foreground and background of the Color enum (codes 0..15
\* each), bits 0-3 of the byte ColorCode::new yields are the foreground
\* code, bits 4-6 are the background code and bit 7, the blink bit, is not
\* set.
C15_ColorCodeBits ==
    last.op = "ColorCode_new" =>
        LET foreground == last.arg[1]
            background == last.arg[2]
        IN  /\ color_code % 16 = foreground
            /\ (color_code \div 16) % 8 = background
            /\ color_code \div 128 = 0

\* ---------------------------------------------------------------------
\* Specification SpecLazy: the contexts' calls of _print start before WRITER
\* has been accessed.  The lazy static initialises itself through a
\* spin::Once: the first context to arrive moves it from INCOMPLETE to
\* RUNNING with one compare-and-swap and runs the initialiser; a context
\* that finds it RUNNING spins until it is COMPLETE.
LazyArgs == { print_args(<<65>>), println_args(<<66>>) }

\* Mutant of OnceBegin: the initialiser is entered whenever the static is
\* not complete yet, also while another context runs it.
OnceBegin_unguarded(c) ==
    /\ pc[c] = "lock"
    /\ once # "COMPLETE"
    /\ once' = "RUNNING"
    /\ pc' = [pc EXCEPT ![c] = "init"]
    /\ UNCHANGED <<writer_vars, locked, pending, acquired, text, serial, pre,
                   last, nbytes, lines, constructed, panic_vars>>

\* The first dereference of WRITER wins the compare-and-swap of the Once.
OnceBegin(c) ==
    /\ pc[c] = "lock"
    /\ once = "INCOMPLETE"
    /\ once' = "RUNNING"
    /\ pc' = [pc EXCEPT ![c] = "init"]
    /\ UNCHANGED <<writer_vars, locked, pending, acquired, text, serial, pre,
                   last, nbytes, lines, constructed, panic_vars>>

\* The initialiser: Mutex::new(Writer { column_position: 0, color_code:
\* ColorCode::new(Color::Yellow, Color::Black), buffer: .. }).
OnceFinish(c) ==
    /\ pc[c] = "init"
    /\ Writer_new(Yellow, Black)
    /\ once' = "COMPLETE"
    /\ pc' = [pc EXCEPT ![c] = "lock"]
    /\ UNCHANGED <<locked, pending, acquired, text, nbytes, lines, panic_vars>>

NextLazy ==
    \/ \E c \in Ctx, args \in LazyArgs : Enter(c, args)
    \/ \E c \in Ctx : OnceBegin(c)
    \/ \E c \in Ctx : OnceFinish(c)
    \/ \E c \in Ctx : Lock(c)
    \/ \E c \in Ctx : WriteStep(c)
    \/ \E c \in Ctx : Unlock(c)

SpecLazy == InitLazy /\ [][NextLazy]_vars

\* C17: exactly one Writer is ever constructed, during the first access to
\* WRITER, also when the first accesses come from several contexts at once:
\* it starts at column 0 in Yellow on Black (0x0E), its construction writes
\* no framebuffer cell, and no context ever gets hold of an uninitialised or
\* of a second Writer.
C17_OneWriter ==
    /\ [](/\ constructed <= 1
          /\ (once = "COMPLETE") <=> (constructed = 1)
          /\ once # "COMPLETE" =>
                /\ column_position = UNINIT
                /\ ~locked
                /\ \A c \in Ctx : pc[c] # "write"
                /\ buffer \in InitBuffers
          /\ Cardinality({c \in Ctx : pc[c] = "init"}) <= 1
          /\ \A c \in Ctx :
                pc[c] = "write" =>
                   /\ acquired[c].column_position \in 0 .. BUFFER_WIDTH
                   /\ acquired[c].color_code = 14
                   /\ color_code = 14)
    /\ [][constructed' # constructed =>
             /\ constructed = 0
             /\ \E c \in Ctx : pc[c] = "init" /\ pc'[c] = "lock"
             /\ column_position' = 0
             /\ color_code' = 14
             /\ buffer' = buffer
             /\ ~locked']_vars
    /\ [][once = "COMPLETE" => once' = "COMPLETE"]_vars

\* Two contexts whose first accesses overlapped: one constructed the Writer
\* and holds it, still at column 0, while the other waits for the lock.
C17_Witness ==
    \E c, d \in Ctx :
        /\ c # d
        /\ constructed = 1
        /\ last.op = "ColorCode_new"
        /\ pc[c] = "write"
        /\ acquired[c].column_position = 0
        /\ acquired[c].scrolls = 0
        /\ pc[d] = "lock"

\* ---------------------------------------------------------------------
\* Specification SpecPanic: calls of _print whose arguments may fail to
\* render, and the panic handler of main.rs.  The kernel does not unwind:
\* a panic runs the handler in the panicking context and never returns, so
\* a guard that is alive at the panic is never dropped.
PanicArgs ==
    { print_args(<<65>>), println_args(<<66>>), failing_args(<<65>>) }

\* The messages of panics raised outside _print: panic!("P") and
\* panic!("P{}", x) with an x whose Display::fmt returns an error.
PanicInfos == { print_args(<<80>>), failing_args(<<80>>) }

\* The message of the panic raised by unwrap() on an Err.
UnwrapInfo == print_args(<<69>>)

\* The three println! calls of the panic handler: a banner line that starts
\* with a newline, the panic info, a closing line.
PanicLine(k, msg) ==
    CASE k = 1 -> println_args(<<NEWLINE, 61>>)
      [] k = 2 -> msg \o << <<NEWLINE>> >>
      [] OTHER -> println_args(<<61>>)

\* write_fmt returned Err: unwrap() panics inside the statement, while the
\* guard of WRITER.lock() is alive; the lock stays taken.
FmtFail(c) ==
    /\ pc[c] = "write"
    /\ pending[c] # <<>>
    /\ Head(pending[c]) = FMT_ERROR
    /\ pc' = [pc EXCEPT ![c] = "panic"]
    /\ handler' = [handler EXCEPT ![c] = 1]
    /\ info' = [info EXCEPT ![c] = UnwrapInfo]
    /\ UNCHANGED <<writer_vars, locked, pending, acquired, text, serial, pre,
                   last, nbytes, lines, once_vars>>

\* A panic raised outside _print, in a context that holds no lock; the
\* first panic of the system.
Panic(c, msg) ==
    /\ pc[c] = "idle"
    /\ \A d \in Ctx : handler[d] = 0
    /\ pc' = [pc EXCEPT ![c] = "panic"]
    /\ handler' = [handler EXCEPT ![c] = 1]
    /\ info' = [info EXCEPT ![c] = msg]
    /\ UNCHANGED <<writer_vars, locked, pending, acquired, text, serial, pre,
                   last, nbytes, lines, once_vars>>

\* The panic handler calls its next println!, which enters _print.
PanicPrint(c) ==
    /\ pc[c] = "panic"
    /\ handler[c] \in 1 .. 3
    /\ text' = [text EXCEPT ![c] = PanicLine(handler[c], info[c])]
    /\ pending' = [pending EXCEPT ![c] = <<>>]
    /\ handler' = [handler EXCEPT ![c] = handler[c] + 1]
    /\ pc' = [pc EXCEPT ![c] = "lock"]
    /\ nbytes' = nbytes + Len(Flat(PanicLine(handler[c], info[c])))
    /\ UNCHANGED <<writer_vars, locked, acquired, serial, pre, last, lines,
                   once_vars, info>>

\* The panic handler's final loop {}.
PanicHalt(c) ==
    /\ pc[c] = "panic"
    /\ handler[c] = 4
    /\ pc' = [pc EXCEPT ![c] = "halt"]
    /\ UNCHANGED <<writer_vars, locked, pending, acquired, text, serial, pre,
                   last, nbytes, lines, once_vars, panic_vars>>

NextPanic ==
    \/ \E c \in Ctx, args \in PanicArgs : Enter(c, args)
    \/ \E c \in Ctx : Lock(c)
    \/ \E c \in Ctx : WriteStep(c)
    \/ \E c \in Ctx : FmtFail(c)
    \/ \E c \in Ctx : Unlock(c)
    \/ \E c \in Ctx, msg \in PanicInfos : Panic(c, msg)
    \/ \E c \in Ctx : PanicPrint(c)
    \/ \E c \in Ctx : PanicHalt(c)

SpecPanic == Init /\ [][NextPanic]_vars

\* Context c is in the panic handler and still owns the WRITER lock: the
\* guard of the _print call that panicked was never dropped.
HoldsInHandler(c) == handler[c] > 0 /\ locked /\ acquired[c] # <<>>

\* Context c is in the panic handler and the _print call that panicked was
\* one of the handler's own.
FailedInHandler(c) ==
    /\ pc[c] = "panic"
    /\ handler[c] = 1
    /\ \E k \in 1 .. 3, msg \in PanicInfos \cup {UnwrapInfo} :
          text[c] = PanicLine(k, msg)

\* C11: the bridge does not fail while it prints a panic message, and a
\* formatting failure inside _print never leads to the panic handler calling
\* _print on the lock its own context still holds: no context is ever in
\* the handler, at the lock of a new _print call, while owning that lock,
\* and no _print call of the handler panics.
C11_NoPanicRecursion ==
    \A c \in Ctx :
        /\ ~(HoldsInHandler(c) /\ pc[c] = "lock")
        /\ ~FailedInHandler(c)

\* C12: a _print call has no partial failure: when it aborts on a rendering
\* failure, no framebuffer cell and no column_position has been changed by
\* it, the Writer being the one the call found when it took the lock.
C12_AllOrNothing ==
    \A c \in Ctx :
        (pc[c] = "panic" /\ handler[c] = 1 /\ acquired[c] # <<>>) =>
            /\ buffer = acquired[c].buffer
            /\ column_position = acquired[c].column_position

\* Context c called _print from the panic handler while the lock is held by
\* the call it interrupted.
Reentered(c) == HoldsInHandler(c) /\ pc[c] = "lock"

\* C13: a _print call made by a handler while the context it interrupted
\* holds the WRITER lock spins forever: from then on the call stays at the
\* lock, the lock is never released and no cell, cursor or color changes.
C13_ReentrantDeadlock ==
    [][(\E c \in Ctx : Reentered(c)) =>
          /\ \A c \in Ctx : Reentered(c) => Reentered(c)'
          /\ locked'
          /\ writer_vars' = writer_vars]_vars

\* The handler spins on its own context's lock after a call that had
\* written part of its text, and the other context waits at the lock too.
C13_Witness ==
    \E c, d \in Ctx :
        /\ c # d
        /\ Reentered(c)
        /\ text[c] = PanicLine(1, info[c])
        /\ acquired[c].column_position # column_position
        /\ pc[d] = "lock"
        /\ handler[d] = 0

\* The scroll passes of the bytes bs written from column col: one for each
\* newline and one for each other byte that arrives on a full row.
RECURSIVE ScrollsOf(_, _)
ScrollsOf(col, bs) ==
    IF bs = <<>> THEN 0
    ELSE IF Head(bs) = 10 THEN 1 + ScrollsOf(0, Tail(bs))
    ELSE IF col >= BUFFER_WIDTH THEN 1 + ScrollsOf(1, Tail(bs))
    ELSE ScrollsOf(col + 1, Tail(bs))

\* The scroll passes performed so far by the call of context c.
ScrollsInCall(c) == scrolls - acquired[c].scrolls

\* C18 as stated: while one _print call holds the lock, at most one scroll
\* pass is performed.
C18_OneScrollPerCall ==
    \A c \in Ctx : pc[c] = "write" => ScrollsInCall(c) <= 1

\* C18 as amended: while one _print call holds the lock, the scroll passes
\* performed are one for each newline of its text and one for each other
\* byte that arrives on a full row, so at most one per byte written: as many
\* as the text has bytes, not at most one.
C18_OneScrollPerByte ==
    \A c \in Ctx :
        pc[c] = "write" =>
            /\ ScrollsInCall(c) = ScrollsOf(acquired[c].column_position, Written(c))
            /\ ScrollsInCall(c) <= Len(Written(c))

\* The banner println of the panic handler, with its two newlines, has
\* scrolled twice under one acquisition.
C18_Witness ==
    \E c \in Ctx :
        /\ pc[c] = "write"
        /\ handler[c] = 2
        /\ pending[c] = <<>>
        /\ ScrollsInCall(c) = 2
        /\ Len(Written(c)) = 3

\* ---------------------------------------------------------------------
\* Specification SpecFair: the contexts of SpecConc, which may also call
\* print!("{}", "") any number of times, under the fairness the execution
\* gives: a context inside _print keeps running, so a holder's next byte
\* and its release happen, and a context spinning at a lock that stays free
\* takes it.  The spin lock has no queue: nothing makes a spinning context
\* win against one that arrives later.
FairArgs == { print_args(<<>>), print_args(<<65>>), println_args(<<66>>) }

NextFair ==
    \/ \E c \in Ctx, args \in FairArgs : Enter(c, args)
    \/ \E c \in Ctx : Lock(c)
    \/ \E c \in Ctx : WriteStep(c)
    \/ \E c \in Ctx : Unlock(c)

SpecFair ==
    /\ Init
    /\ [][NextFair]_vars
    /\ \A c \in Ctx : WF_vars(Lock(c)) /\ WF_vars(WriteStep(c)) /\ WF_vars(Unlock(c))

\* C14 as stated: every context that starts _print eventually acquires the
\* lock, completes its write and releases the lock.
C14_NoStarvation ==
    \A c \in Ctx :
        /\ (pc[c] = "lock") ~> (pc[c] = "write")
        /\ (pc[c] = "write") ~> (pc[c] = "idle")

\* C14 as amended: every holder finishes its write and releases the lock; a
\* free lock some context waits for is eventually taken; and a context
\* waits at the lock forever only if other contexts take the lock again and
\* again.
C14_Progress ==
    /\ \A c \in Ctx : (pc[c] = "write") ~> (pc[c] = "idle" /\ ~locked)
    /\ ((\E c \in Ctx : pc[c] = "lock") /\ ~locked) ~> locked
    /\ \A c \in Ctx :
          <>[](pc[c] = "lock") => []<>(\E d \in Ctx \ {c} : pc[d] = "write")

\* A context waits at the lock while another one, which has printed before,
\* holds it for an empty call.
C14_Witness ==
    \E c, d \in Ctx :
        /\ c # d
        /\ pc[c] = "lock"
        /\ pc[d] = "write"
        /\ text[d] = print_args(<<>>)
        /\ scrolls >= 1
        /\ text[c] # print_args(<<>>)

====
